---------------------------- MODULE Spec2Model ----------------------------
(***************************************************************************)
(* A model of src/src/server.js: an Express application with a CORS gate,  *)
(* a JSON body parser, an optional Basic-Auth gate, three product routes,  *)
(* a login route and a health route, over a MongoDB persistence layer.     *)
(*                                                                         *)
(* A JavaScript object is a TLA+ record; a property that is undefined is a *)
(* field the record does not have.  A route handler is split at its await: *)
(* the synchronous part up to the persistence call, the persistence        *)
(* operation itself (atomic in the database), and the continuation that    *)
(* sends the response.                                                     *)
(***************************************************************************)
EXTENDS Integers, Sequences, FiniteSets, Bags, TLC

VARIABLES
    env,        \* process.env: BASIC_USER and BASIC_PASS, when set
    users,      \* the User collection (pre-provisioned, never written)
    products,   \* the Product collection
    nextId,     \* how many identifiers the persistence layer has handed out
    now,        \* Date.now()
    reqs,       \* the requests being served (a bag)
    sent        \* history: identifiers whose 201 (create) and 200 (delete) were sent

vars == <<env, users, products, nextId, now, reqs, sent>>

(***************************************************************************)
(* Bounds of the model.                                                    *)
(***************************************************************************)
MaxProducts == 2    \* identifiers the persistence layer hands out in a run
MaxInFlight == 2    \* requests served at the same time

(***************************************************************************)
(* JavaScript values.                                                      *)
(***************************************************************************)
Has(obj, key) == key \in DOMAIN obj

\* !obj[key] for a string property: undefined or "".
FalsyStr(obj, key) == IF Has(obj, key) THEN obj[key] = "" ELSE TRUE

\* !obj[key] for a number property: undefined or 0.
FalsyNum(obj, key) == IF Has(obj, key) THEN obj[key] = 0 ELSE TRUE

\* s.endsWith(suffix)
endsWith(s, suffix) ==
    /\ Len(s) >= Len(suffix)
    /\ SubSeq(s, Len(s) - Len(suffix) + 1, Len(s)) = suffix

startsWith(s, prefix) ==
    /\ Len(s) >= Len(prefix)
    /\ SubSeq(s, 1, Len(prefix)) = prefix

\* arr.includes(x)
includes(arr, x) == \E i \in DOMAIN arr : arr[i] = x

\* Variant: the origin is compared as sent, no slash removed.
cleanOrigin_asSent(origin) == origin

\* origin.replace(/\/$/, ""): one trailing slash, if there is one, is removed.
cleanOrigin(origin) ==
    IF Len(origin) > 0 /\ SubSeq(origin, Len(origin), Len(origin)) = "/"
    THEN SubSeq(origin, 1, Len(origin) - 1)
    ELSE origin

\* The object with no properties.
EmptyObject == << >>


(***************************************************************************)
(* The CORS gate: cors(corsOptions), the first middleware.                 *)
(***************************************************************************)
allowedOrigins ==
    << "https://app-book-reviews-front.vercel.app",
       "http://localhost:3000",
       "http://localhost:3001",
       "http://localhost:4200" >>

\* corsOptions.origin(origin, cb): TRUE is cb(null, true), FALSE is
\* cb(new Error("Not allowed by CORS")).  req.headers.origin is a string or
\* undefined, so the typeof test is true wherever it is reached.
origin(headers) ==
    IF FalsyStr(headers, "origin") THEN TRUE
    ELSE includes(allowedOrigins, cleanOrigin(headers.origin))
            \/ endsWith(cleanOrigin(headers.origin), ".vercel.app")

\* next(err) with no error handler registered: Express's final handler sends
\* err.status (500 when the error has none) with an HTML page.
CorsError == [status |-> 500, html |-> "Error: Not allowed by CORS"]

\* cors answers an allowed OPTIONS request itself: 204, no body.
PreflightResponse == [status |-> 204, send |-> ""]

(***************************************************************************)
(* express.json(): the payload of a request is absent, a JSON object, or   *)
(* text that does not parse.                                               *)
(***************************************************************************)
NoPayload == [kind |-> "none"]
Json(obj) == [kind |-> "json", value |-> obj]
Malformed == [kind |-> "malformed"]

\* req.body after the parser: {} when the request carries no JSON body.
body(in) == IF in.payload.kind = "json" THEN in.payload.value ELSE EmptyObject

\* The parser's SyntaxError has status 400; the final handler sends it.
JsonError == [status |-> 400, html |-> "SyntaxError"]

(***************************************************************************)
(* The Basic-Auth gate.  An Authorization header is modelled by the        *)
(* credentials it decodes to.                                              *)
(***************************************************************************)
\* process.env.BASIC_USER && process.env.BASIC_PASS
authEnabled == ~FalsyStr(env, "BASIC_USER") /\ ~FalsyStr(env, "BASIC_PASS")

\* Variant: only the password is compared.
authorized_passOnly(headers) ==
    /\ Has(headers, "authorization")
    /\ headers.authorization.pass = env.BASIC_PASS

\* basicAuth({users: {[BASIC_USER]: BASIC_PASS}, challenge: true}): the request
\* passes when its credentials are that pair.
authorized(headers) ==
    /\ Has(headers, "authorization")
    /\ headers.authorization.name = env.BASIC_USER
    /\ headers.authorization.pass = env.BASIC_PASS

\* Variant: the gate is mounted after the health route, which it lets through.
authPasses_openRoot(in) ==
    IF ~authEnabled THEN TRUE
    ELSE IF in.method = "OPTIONS" THEN TRUE
    ELSE IF in.method = "GET" /\ in.path = "/" THEN TRUE
    ELSE authorized(in.headers)

\* The gate lets the request through: the gate is not installed, or the method
\* is OPTIONS, or basicAuth accepts the credentials.
authPasses(in) ==
    IF ~authEnabled THEN TRUE
    ELSE IF in.method = "OPTIONS" THEN TRUE
    ELSE authorized(in.headers)

\* basicAuth's refusal: 401, WWW-Authenticate: Basic, and an empty body (no
\* unauthorizedResponse is configured).
Challenge == [status |-> 401, wwwAuthenticate |-> "Basic", send |-> ""]

(***************************************************************************)
(* The routes, in the order they are registered.                           *)
(***************************************************************************)
ProductPath == "/api/products"

\* req.params.id of /api/products/:id
paramId(path) == SubSeq(path, Len(ProductPath) + 2, Len(path))

route(in) ==
    CASE in.method = "GET" /\ in.path = ProductPath -> "list"
      [] in.method = "POST" /\ in.path = ProductPath -> "create"
      [] in.method = "DELETE" /\ startsWith(in.path, ProductPath \o "/")
            /\ Len(paramId(in.path)) > 0 -> "delete"
      [] in.method = "POST" /\ in.path = "/api/login" -> "login"
      [] in.method = "GET" /\ in.path = "/" -> "health"
      [] OTHER -> "none"

\* No route matches: Express's final handler sends 404 with an HTML page.
NoRoute(in) == [status |-> 404, html |-> "Cannot " \o in.method \o " " \o in.path]

\* The middleware, in order, up to the router: which of them answers.
pipeline(in) ==
    IF ~origin(in.headers) THEN "cors"
    ELSE IF in.method = "OPTIONS" THEN "preflight"
    ELSE IF in.payload.kind = "malformed" THEN "json"
    ELSE IF ~authPasses(in) THEN "auth"
    ELSE route(in)

(***************************************************************************)
(* The persistence layer: the Product and User models.                     *)
(***************************************************************************)
\* The n-th identifier the persistence layer assigns.
ObjectId(n) == "id" \o ToString(n)

\* Whether a string casts to an identifier (findByIdAndDelete throws a
\* CastError when it does not).
isObjectId(str) == startsWith(str, "id")

\* The properties of obj among keys.
pick(obj, keys) == [k \in keys \cap DOMAIN obj |-> obj[k]]

\* ProductSchema's validation: name, price and imageBase64 are required (a
\* required String must not be empty; a required Number may be 0).
ProductSchema(props) ==
    /\ ~FalsyStr(props, "name")
    /\ Has(props, "price")
    /\ ~FalsyStr(props, "imageBase64")

\* The document Product.create stores: the given properties, the schema's
\* defaults for those not given, a fresh _id, createdAt = Date.now().
Product(props, id, t) ==
    props @@ [stock |-> 0, imageMimeType |-> "image/jpeg"]
          @@ [_id |-> id, createdAt |-> t]

ids(docs) == {d._id : d \in docs}

\* .sort({createdAt: -1}): the orders of docs with createdAt descending; equal
\* timestamps come in either order.
sortCreatedAtDesc(docs) ==
    {seq \in [1..Cardinality(docs) -> docs] :
        /\ \A i, j \in DOMAIN seq : i < j =>
              seq[i]._id # seq[j]._id /\ seq[i].createdAt >= seq[j].createdAt}

\* A username of the login body is a JSON string, [str |-> s], or a JSON
\* object, which Mongoose reads as a query selector: [ne |-> s] is {"$ne": s}.
isString(v) == Has(v, "str")

\* !v for a JSON value: an object is truthy, a string is falsy when empty.
falsy(obj, key) ==
    IF Has(obj, key) THEN isString(obj[key]) /\ obj[key].str = "" ELSE TRUE

\* Whether a user document matches the filter {username}.
matches(u, username) ==
    IF isString(username) THEN u.username = username.str
    ELSE u.username # username.ne

\* The outcome of a persistence operation: it threw (err), or it returned docs
\* (null is no document).
NoResult == [err |-> FALSE, docs |-> << >>]
Threw == [err |-> TRUE, docs |-> << >>]
Returned(docs) == [err |-> FALSE, docs |-> docs]

\* A set of at most one document as the result of a findOne.
oneOrNull(docs) == IF docs = {} THEN << >> ELSE << CHOOSE d \in docs : TRUE >>

(***************************************************************************)
(* Responses.                                                              *)
(***************************************************************************)
NoResponse == [status |-> 0]

\* res.status(status).json({error: message})
Error(status, message) == [status |-> status, json |-> [error |-> message]]

\* Variant: the data URI without its encoding part.
withImage_noEncoding(prod) ==
    prod @@ [image |-> "data:"
                \o (IF FalsyStr(prod, "imageMimeType") THEN "image/jpeg"
                    ELSE prod.imageMimeType)
                \o "," \o prod.imageBase64]

\* The list handler's map: each document with its image data URI.
withImage(prod) ==
    prod @@ [image |-> "data:"
                \o (IF FalsyStr(prod, "imageMimeType") THEN "image/jpeg"
                    ELSE prod.imageMimeType)
                \o ";base64," \o prod.imageBase64]

\* The properties the create handler passes to Product.create.
createProps(b) ==
    [imageMimeType |-> IF FalsyStr(b, "imageMimeType") THEN "image/jpeg"
                       ELSE b.imageMimeType]
        @@ pick(b, {"name", "price", "stock", "imageBase64"})

\* Variant: the image is not checked.
missingData_noImage(b) == FalsyStr(b, "name") \/ FalsyNum(b, "price")

\* The create handler's validation: !name || !price || !imageBase64
missingData(b) ==
    FalsyStr(b, "name") \/ FalsyNum(b, "price") \/ FalsyStr(b, "imageBase64")

\* The login handler's validation: !username || !password
missingCredentials(b) == falsy(b, "username") \/ FalsyStr(b, "password")

(***************************************************************************)
(* The requests being served: a bag of records.                            *)
(*   in: the request; by: the middleware or handler that answers it;       *)
(*   pc: "await" (persistence operation issued), "resume" (it settled),    *)
(*       "done" (response sent); db: the operation's outcome; res: the     *)
(*   response.                                                             *)
(* History, for stating properties: seen is the value of sent when a list  *)
(* request arrived; had is whether the product a delete names was in the   *)
(* collection when its persistence operation was attempted.                *)
(***************************************************************************)
NothingSent == [created |-> {}, deleted |-> EmptyBag]

Answered(in, by, res) ==
    [in |-> in, by |-> by, pc |-> "done", db |-> NoResult, res |-> res,
     seen |-> NothingSent, had |-> FALSE]

Awaiting(in, by) ==
    [in |-> in, by |-> by, pc |-> "await", db |-> NoResult, res |-> NoResponse,
     seen |-> IF by = "list" THEN sent ELSE NothingSent, had |-> FALSE]

Serving == BagToSet(reqs)

At(by, pc) == {r \in Serving : r.pc = pc /\ r.by = by}

\* The server takes request r.
Accept(r) ==
    /\ reqs' = reqs (+) SetToBag({r})
    /\ UNCHANGED <<env, users, products, nextId, now, sent>>

Becomes(r, q) == reqs' = (reqs (-) SetToBag({r})) (+) SetToBag({q})

\* The persistence operation of r settles with result.
Settle(r, result) ==
    Becomes(r, [r EXCEPT !.pc = "resume", !.db = result,
                         !.had = r.by = "delete"
                                 /\ paramId(r.in.path) \in ids(products)])

\* The handler of r sends res and returns.
Respond(r, res) ==
    Becomes(r, [r EXCEPT !.pc = "done", !.db.docs = << >>, !.res = res])

(***************************************************************************)
(* The middleware and the routes that answer without persistence.  A       *)
(* request among inputs arrives while fewer than capacity are served.      *)
(***************************************************************************)
CorsReject(capacity, inputs) ==
    /\ BagCardinality(reqs) < capacity
    /\ \E in \in inputs :
          /\ pipeline(in) = "cors"
          /\ Accept(Answered(in, "cors", CorsError))

Preflight(capacity, inputs) ==
    /\ BagCardinality(reqs) < capacity
    /\ \E in \in inputs :
          /\ pipeline(in) = "preflight"
          /\ Accept(Answered(in, "preflight", PreflightResponse))

JsonReject(capacity, inputs) ==
    /\ BagCardinality(reqs) < capacity
    /\ \E in \in inputs :
          /\ pipeline(in) = "json"
          /\ Accept(Answered(in, "json", JsonError))

AuthChallenge(capacity, inputs) ==
    /\ BagCardinality(reqs) < capacity
    /\ \E in \in inputs :
          /\ pipeline(in) = "auth"
          /\ Accept(Answered(in, "auth", Challenge))

NotFound(capacity, inputs) ==
    /\ BagCardinality(reqs) < capacity
    /\ \E in \in inputs :
          /\ pipeline(in) = "none"
          /\ Accept(Answered(in, "router", NoRoute(in)))

\* app.get('/'): res.status(200).send('OK')
Health(capacity, inputs) ==
    /\ BagCardinality(reqs) < capacity
    /\ \E in \in inputs :
          /\ pipeline(in) = "health"
          /\ Accept(Answered(in, "health", [status |-> 200, send |-> "OK"]))

(***************************************************************************)
(* GET /api/products                                                       *)
(***************************************************************************)
ListBegin(capacity, inputs) ==
    /\ BagCardinality(reqs) < capacity
    /\ \E in \in inputs :
          /\ pipeline(in) = "list"
          /\ Accept(Awaiting(in, "list"))

\* Product.find().sort({createdAt: -1}).lean()
ListFind ==
    /\ \E r \in At("list", "await"), docs \in sortCreatedAtDesc(products) :
          Settle(r, Returned(docs))
    /\ UNCHANGED <<env, users, products, nextId, now, sent>>

\* Variant: the caught error's message is sent to the caller.
listResponse_leak(db) ==
    IF db.err THEN [status |-> 500, send |-> "MongoNetworkError"]
    ELSE [status |-> 200,
          json |-> [items |-> [i \in DOMAIN db.docs |-> withImage(db.docs[i])]]]

\* The list handler after the find.
listResponse(db) ==
    IF db.err THEN Error(500, "Error al obtener productos")
    ELSE [status |-> 200,
          json |-> [items |-> [i \in DOMAIN db.docs |-> withImage(db.docs[i])]]]

ListEnd ==
    /\ \E r \in At("list", "resume") : Respond(r, listResponse(r.db))
    /\ UNCHANGED <<env, users, products, nextId, now, sent>>

(***************************************************************************)
(* POST /api/products                                                      *)
(***************************************************************************)
CreateBegin(capacity, inputs) ==
    /\ BagCardinality(reqs) < capacity
    /\ \E in \in inputs :
          /\ pipeline(in) = "create"
          /\ IF missingData(body(in))
             THEN Accept(Answered(in, "create", Error(400, "Faltan datos obligatorios")))
             ELSE Accept(Awaiting(in, "create"))

\* Product.create(props): validation, then the insert with a fresh _id and
\* createdAt = Date.now(); the clock has advanced by one of ticks since the
\* last insert.
CreateInsert(ticks) ==
    /\ nextId < MaxProducts
    /\ \E r \in At("create", "await") :
          IF ProductSchema(createProps(body(r.in)))
          THEN \E t \in {now + d : d \in ticks} :
                /\ now' = t
                /\ nextId' = nextId + 1
                /\ products' = products \cup
                        {Product(createProps(body(r.in)), ObjectId(nextId + 1), t)}
                /\ Settle(r, Returned(
                        << Product(createProps(body(r.in)), ObjectId(nextId + 1), t) >>))
          ELSE /\ Settle(r, Threw)
               /\ UNCHANGED <<products, nextId, now>>
    /\ UNCHANGED <<env, users, sent>>

CreateEnd ==
    /\ \E r \in At("create", "resume") :
          IF r.db.err
          THEN /\ Respond(r, Error(500, "Error al crear producto"))
               /\ UNCHANGED sent
          ELSE /\ Respond(r, [status |-> 201, json |-> r.db.docs[1]])
               /\ sent' = [sent EXCEPT !.created = @ \cup {r.db.docs[1]._id}]
    /\ UNCHANGED <<env, users, products, nextId, now>>

(***************************************************************************)
(* DELETE /api/products/:id                                                *)
(***************************************************************************)
DeleteBegin(capacity, inputs) ==
    /\ BagCardinality(reqs) < capacity
    /\ \E in \in inputs :
          /\ pipeline(in) = "delete"
          /\ Accept(Awaiting(in, "delete"))

\* Variant: deleteMany({}) after the find.
findByIdAndDelete_all(r, id) ==
    IF ~isObjectId(id)
    THEN /\ Settle(r, Threw)
         /\ UNCHANGED products
    ELSE /\ products' = IF id \in ids(products) THEN {} ELSE products
         /\ Settle(r, Returned(oneOrNull({p \in products : p._id = id})))

\* Variant: findById, and the removal left to a later step that is lost.
findByIdAndDelete_findOnly(r, id) ==
    IF ~isObjectId(id)
    THEN /\ Settle(r, Threw)
         /\ UNCHANGED products
    ELSE /\ UNCHANGED products
         /\ Settle(r, Returned(oneOrNull({p \in products : p._id = id})))

\* Product.findByIdAndDelete(req.params.id): a CastError when the string is no
\* identifier, else one atomic find-and-remove.
findByIdAndDelete(r, id) ==
    IF ~isObjectId(id)
    THEN /\ Settle(r, Threw)
         /\ UNCHANGED products
    ELSE /\ products' = products \ {p \in products : p._id = id}
         /\ Settle(r, Returned(oneOrNull({p \in products : p._id = id})))

DeleteFind ==
    /\ \E r \in At("delete", "await") : findByIdAndDelete(r, paramId(r.in.path))
    /\ UNCHANGED <<env, users, nextId, now, sent>>

DeleteEnd ==
    /\ \E r \in At("delete", "resume") :
          IF r.db.err
          THEN /\ Respond(r, Error(500, "Error al eliminar producto"))
               /\ UNCHANGED sent
          ELSE IF r.db.docs = << >>
          THEN /\ Respond(r, Error(404, "Producto no encontrado"))
               /\ UNCHANGED sent
          ELSE /\ Respond(r, [status |-> 200, json |-> [ok |-> TRUE]])
               /\ sent' = [sent EXCEPT
                              !.deleted = @ (+) SetToBag({r.db.docs[1]._id})]
    /\ UNCHANGED <<env, users, products, nextId, now>>

(***************************************************************************)
(* POST /api/login                                                         *)
(***************************************************************************)
LoginBegin(capacity, inputs) ==
    /\ BagCardinality(reqs) < capacity
    /\ \E in \in inputs :
          /\ pipeline(in) = "login"
          /\ IF missingCredentials(body(in))
             THEN Accept(Answered(in, "login", Error(400, "Faltan credenciales")))
             ELSE Accept(Awaiting(in, "login"))

\* User.findOne({username}).lean()
findOne(username) == oneOrNull({u \in users : matches(u, username)})

LoginFind ==
    /\ \E r \in At("login", "await") :
          Settle(r, Returned(findOne(body(r.in).username)))
    /\ UNCHANGED <<env, users, products, nextId, now, sent>>

\* The login handler after the lookup.
loginResponse(db, password) ==
    IF db.err THEN Error(500, "Error en el servidor")
    ELSE IF db.docs = << >> THEN Error(401, "Usuario no encontrado")
    ELSE IF db.docs[1].password # password THEN Error(401, "Contraseña incorrecta")
    ELSE [status |-> 200,
          json |-> [message |-> "Login exitoso", token |-> "ok-" \o db.docs[1]._id]]

LoginEnd ==
    /\ \E r \in At("login", "resume") :
          Respond(r, loginResponse(r.db, body(r.in).password))
    /\ UNCHANGED <<env, users, products, nextId, now, sent>>

(***************************************************************************)
(* The persistence operation of an awaiting handler rejects: the database  *)
(* is unreachable, the operation times out.  Nothing is written.           *)
(***************************************************************************)
PersistenceError ==
    /\ \E r \in {q \in Serving : q.pc = "await"} : Settle(r, Threw)
    /\ UNCHANGED <<env, users, products, nextId, now, sent>>

\* A response has been delivered; its request is no longer served.
Close ==
    /\ \E r \in {q \in Serving : q.pc = "done"} : reqs' = reqs (-) SetToBag({r})
    /\ UNCHANGED <<env, users, products, nextId, now, sent>>

(***************************************************************************)
(* The environment: configurations, stored users, requests.                *)
(***************************************************************************)
Credentials == [name |-> "admin", pass |-> "s3cret"]

\* process.env: the pair unset, one half set, the password empty, both set.
Envs ==
    { EmptyObject,
      [BASIC_USER |-> "admin"],
      [BASIC_USER |-> "admin", BASIC_PASS |-> ""],
      [BASIC_USER |-> Credentials.name, BASIC_PASS |-> Credentials.pass] }

EnvNoAuth == EmptyObject
EnvAuth == [BASIC_USER |-> Credentials.name, BASIC_PASS |-> Credentials.pass]

Ana == [_id |-> "u1", username |-> "ana", password |-> "pw1"]
Bob == [_id |-> "u2", username |-> "bob", password |-> "pw2"]
UserStores == { {}, {Ana}, {Ana, Bob} }

\* A product stored before imageMimeType was part of the schema.
Legacy ==
    [_id |-> ObjectId(0), name |-> "Old", price |-> 1, stock |-> 0,
     imageBase64 |-> "Zg==", createdAt |-> 0]

\* Origin header values: each allowed origin, bare, with one and with two
\* trailing slashes; origins under the trusted suffix; others.
Listed == {allowedOrigins[i] : i \in DOMAIN allowedOrigins}
Origins ==
    Listed \cup {o \o "/" : o \in Listed} \cup {o \o "//" : o \in Listed}
        \cup { "", "/", ".vercel.app", "https://preview.vercel.app",
               "https://preview.vercel.app/", "https://preview.vercel.app//",
               "https://evilvercel.app", "https://vercel.app.evil.example",
               "http://localhost:3002", "https://LOCALHOST:3000" }

\* The headers of a request: an Origin among origins or none, and Basic
\* credentials among auths or none.
Headers(origins, auths) ==
    {h1 @@ h2 : h1 \in {EmptyObject} \cup {[origin |-> o] : o \in origins},
                h2 \in {EmptyObject} \cup {[authorization |-> a] : a \in auths}}

Request(method, path, headers, payload) ==
    [method |-> method, path |-> path, headers |-> headers, payload |-> payload]

\* Create bodies: each of the five properties given or not, price possibly 0,
\* imageMimeType possibly "".
Bodies ==
    {n @@ p @@ i @@ k @@ m :
        n \in {EmptyObject, [name |-> "Widget"]},
        p \in {EmptyObject, [price |-> 0], [price |-> 9]},
        i \in {EmptyObject, [imageBase64 |-> "QQ=="]},
        k \in {EmptyObject, [stock |-> 5]},
        m \in {EmptyObject, [imageMimeType |-> ""], [imageMimeType |-> "image/png"]}}

Widget == [name |-> "Widget", price |-> 9, imageBase64 |-> "QQ=="]

\* Identifiers a delete may name: every identifier the run can assign, the
\* legacy product's, and a string that is no identifier.
DeletePaths ==
    {ProductPath \o "/" \o ObjectId(n) : n \in 0..MaxProducts}
        \cup {ProductPath \o "/xyz"}

\* Login bodies: username absent, "", a stored name, a name in another case,
\* an unknown name, a query selector; password absent, "", right or wrong.
LoginBodies ==
    {u @@ p :
        u \in {EmptyObject} \cup {[username |-> [str |-> x]] :
                                    x \in {"", "ana", "Ana", "bob", "eve"}}
                \cup {[username |-> [ne |-> ""]]},
        p \in {EmptyObject} \cup {[password |-> x] : x \in {"", "pw1", "pw2"}}}

(***************************************************************************)
(* The server: its state after start-up and its steps.                     *)
(***************************************************************************)
Start(envs, stores, collections) ==
    /\ env \in envs
    /\ users \in stores
    /\ products \in collections
    /\ nextId = 0
    /\ now = 1
    /\ reqs = EmptyBag
    /\ sent = NothingSent

Gates(capacity, inputs) ==
    \/ CorsReject(capacity, inputs)
    \/ Preflight(capacity, inputs)
    \/ JsonReject(capacity, inputs)
    \/ AuthChallenge(capacity, inputs)
    \/ NotFound(capacity, inputs)
    \/ Health(capacity, inputs)

ProductRoutes(capacity, inputs, ticks) ==
    \/ ListBegin(capacity, inputs)
    \/ ListFind
    \/ ListEnd
    \/ CreateBegin(capacity, inputs)
    \/ CreateInsert(ticks)
    \/ CreateEnd
    \/ DeleteBegin(capacity, inputs)
    \/ DeleteFind
    \/ DeleteEnd

LoginRoute(capacity, inputs) ==
    \/ LoginBegin(capacity, inputs)
    \/ LoginFind
    \/ LoginEnd

Settling == PersistenceError \/ Close

(***************************************************************************)
(* SpecGates: every route behind every combination of configuration,       *)
(* Origin and credentials, one request at a time (the gates keep no state  *)
(* between requests).                                                      *)
(***************************************************************************)
WrongPass == [name |-> "admin", pass |-> "wrong"]
WrongName == [name |-> "root", pass |-> "s3cret"]

GateRequests ==
    {Request(r[1], r[2], h, r[3]) :
        r \in { <<"GET", "/", NoPayload>>,
                <<"GET", "/", Malformed>>,
                <<"OPTIONS", "/", NoPayload>>,
                <<"OPTIONS", ProductPath, NoPayload>>,
                <<"GET", "/api/unknown", NoPayload>>,
                <<"GET", ProductPath, NoPayload>>,
                <<"POST", ProductPath, Malformed>>,
                <<"POST", ProductPath, Json(Widget)>>,
                <<"POST", ProductPath, Json([price |-> 9])>>,
                <<"DELETE", ProductPath \o "/" \o ObjectId(1), NoPayload>>,
                <<"DELETE", ProductPath \o "/xyz", NoPayload>>,
                <<"POST", "/api/login", Json([username |-> [str |-> "ana"],
                                              password |-> "pw1"])>>,
                <<"POST", "/api/login", Json([username |-> [str |-> "ana"]])>> },
        h \in Headers(Origins, {Credentials, WrongPass, WrongName})}

InitGates == Start(Envs, {{Ana}}, {{}})

NextGates ==
    \/ Gates(1, GateRequests)
    \/ ProductRoutes(1, GateRequests, {0, 1})
    \/ LoginRoute(1, GateRequests)
    \/ Settling

SpecGates == InitGates /\ [][NextGates]_vars

(***************************************************************************)
(* SpecCreate: the product routes with every create body, one request at   *)
(* a time, no gate in the way.                                             *)
(***************************************************************************)
CreateRequests ==
    {Request("POST", ProductPath, EmptyObject, Json(b)) : b \in Bodies}
        \cup {Request("POST", ProductPath, EmptyObject, NoPayload)}
        \cup {Request("GET", ProductPath, EmptyObject, NoPayload)}
        \cup {Request("DELETE", p, EmptyObject, NoPayload) : p \in DeletePaths}

InitCreate == Start({EnvNoAuth}, {{}}, {{}, {Legacy}})

NextCreate ==
    \/ ProductRoutes(1, CreateRequests, {0, 1})
    \/ Settling

SpecCreate == InitCreate /\ [][NextCreate]_vars

(***************************************************************************)
(* Spec: the product routes under concurrent requests that pass the gates. *)
(* Every insert gets a later timestamp than the one before.                *)
(***************************************************************************)
Trusted == [origin |-> "http://localhost:4200", authorization |-> Credentials]

ProductRequests ==
    {Request("POST", ProductPath, Trusted, Json(Widget))}
        \cup {Request("GET", ProductPath, Trusted, NoPayload)}
        \cup {Request("DELETE", ProductPath \o "/" \o ObjectId(n), Trusted, NoPayload) :
                n \in 1..MaxProducts}

Init == Start({EnvAuth}, {{}}, {{}})

Next ==
    \/ ProductRoutes(MaxInFlight, ProductRequests, {1})
    \/ Settling

Spec == Init /\ [][Next]_vars

(***************************************************************************)
(* SpecLogin: the login route under concurrent requests, over every user   *)
(* store.                                                                  *)
(***************************************************************************)
LoginRequests ==
    {Request("POST", "/api/login", EmptyObject, Json(b)) : b \in LoginBodies}

InitLogin == Start({EnvNoAuth}, UserStores, {{}})

NextLogin ==
    \/ LoginRoute(MaxInFlight, LoginRequests)
    \/ Settling

SpecLogin == InitLogin /\ [][NextLogin]_vars

(***************************************************************************)
(* Properties.                                                             *)
(***************************************************************************)
Done(by) == {r \in Serving : r.pc = "done" /\ r.by = by}

Handlers == {"list", "create", "delete", "login", "health"}

\* Both halves of the Basic-Auth pair are set (to non-empty values).
BothSet ==
    /\ Has(env, "BASIC_USER") /\ env.BASIC_USER # ""
    /\ Has(env, "BASIC_PASS") /\ env.BASIC_PASS # ""

\* The request carries Basic credentials equal to the configured pair.
CarriesPair(in) ==
    /\ Has(in.headers, "authorization")
    /\ in.headers.authorization = [name |-> env.BASIC_USER, pass |-> env.BASIC_PASS]

IsChallenge(res) == res.status = 401 /\ Has(res, "wwwAuthenticate")

\* A body of the shape {error: string}.
IsErrorBody(res) == Has(res, "json") /\ DOMAIN res.json = {"error"}

\* C1 as stated: with the pair set, every served request that is not OPTIONS
\* and does not carry the pair has been answered with the 401 challenge, by no
\* handler; with the pair not set, no request is challenged.
C1_Original ==
    \A r \in Serving :
        IF BothSet
        THEN (r.in.method # "OPTIONS" /\ ~CarriesPair(r.in))
                => r.pc = "done" /\ IsChallenge(r.res) /\ r.by \notin Handlers
        ELSE ~IsChallenge(r.res)

\* C1, amended: with the pair set, a request that is not OPTIONS and does not
\* carry the pair never reaches a handler; it is answered by the CORS gate when
\* its Origin is denied, else by the body parser when its body does not parse,
\* else with the 401 challenge.  With the pair not set, no request is challenged.
C1_AuthGate ==
    \A r \in Serving :
        IF BothSet
        THEN (r.in.method # "OPTIONS" /\ ~CarriesPair(r.in))
                => /\ r.pc = "done"
                   /\ r.by \in {"cors", "json", "auth"}
                   /\ r.by = "cors" => ~origin(r.in.headers) /\ r.res.status = 500
                   /\ r.by = "json" => r.in.payload = Malformed /\ r.res.status = 400
                   /\ r.by = "auth" => IsChallenge(r.res) /\ r.res.send = ""
        ELSE ~IsChallenge(r.res) /\ r.by # "auth"

\* A delete without credentials, from an allowed origin, was challenged.
C1_Witness ==
    \E r \in Done("auth") :
        /\ BothSet
        /\ r.in.method = "DELETE"
        /\ ~Has(r.in.headers, "authorization")
        /\ Has(r.in.headers, "origin")
        /\ IsChallenge(r.res)

Ok200 == [status |-> 200, send |-> "OK"]

RootRequests == {r \in Serving : r.in.method = "GET" /\ r.in.path = "/"}

\* C2 as stated: every GET / is answered 200 "OK".
C2_Original == \A r \in RootRequests : r.pc = "done" /\ r.res = Ok200

\* C2, amended: GET / is answered 200 "OK" when it passes the gates; it gets
\* the CORS error (500) when its Origin is denied, else 400 when it carries a
\* body that does not parse, else the 401 challenge when the pair is set and
\* the request does not carry it.
C2_Root ==
    \A r \in RootRequests :
        /\ r.pc = "done"
        /\ r.res = IF ~origin(r.in.headers) THEN CorsError
                   ELSE IF r.in.payload = Malformed THEN JsonError
                   ELSE IF BothSet /\ ~CarriesPair(r.in) THEN Challenge
                   ELSE Ok200

\* GET / with the pair set, carrying it, from a listed origin: 200 "OK".
C2_Witness ==
    \E r \in RootRequests :
        /\ BothSet /\ CarriesPair(r.in)
        /\ Has(r.in.headers, "origin") /\ r.in.headers.origin \in Listed
        /\ r.res = Ok200

\* The origins C3 allows: those of the allow-list, bare or with one trailing
\* slash, and those that end in the suffix, bare or followed by one slash.
C3_Allows(o) ==
    \/ o \in Listed
    \/ \E l \in Listed : o = l \o "/"
    \/ endsWith(o, ".vercel.app")
    \/ endsWith(o, ".vercel.app/")

\* C3 as stated: a request passes the CORS gate exactly when it has no Origin
\* or its Origin is one C3 allows.
C3_Original ==
    \A r \in Serving :
        (r.by # "cors") <=> (~Has(r.in.headers, "origin") \/ C3_Allows(r.in.headers.origin))

\* C3, amended: a request passes the CORS gate exactly when it has no Origin,
\* or an empty one, or its Origin is one C3 allows; a denied request gets the
\* CORS error.
C3_Cors ==
    \A r \in Serving :
        /\ (r.by # "cors") <=>
              (IF ~Has(r.in.headers, "origin") THEN TRUE
               ELSE r.in.headers.origin = "" \/ C3_Allows(r.in.headers.origin))
        /\ r.by = "cors" => r.pc = "done" /\ r.res = CorsError

\* A request whose Origin is a listed one followed by a slash passed the gate.
C3_Witness ==
    \E r \in Serving :
        /\ Has(r.in.headers, "origin")
        /\ r.in.headers.origin = "http://localhost:3000/"
        /\ r.by # "cors"

Generic ==
    { "Error al obtener productos", "Error al crear producto",
      "Error al eliminar producto", "Error en el servidor" }

IsError(res) == res.status \in {400, 401, 404, 500}

\* C9 as stated: every error response has a body {error: string}, CORS
\* rejections excepted; a persistence error yields 500 with a generic message.
C9_Original ==
    \A r \in {q \in Serving : q.pc = "done"} :
        /\ (IsError(r.res) /\ r.by # "cors") => IsErrorBody(r.res)
        /\ r.db.err => r.res.status = 500 /\ IsErrorBody(r.res)
                        /\ r.res.json.error \in Generic

\* C9, amended: every error response a route handler sends has a body
\* {error: string}, and a persistence error yields 500 with a generic message;
\* the error responses of the CORS gate, the body parser, the Basic-Auth gate
\* and the router (no route) have no JSON body.
C9_Errors ==
    \A r \in {q \in Serving : q.pc = "done"} :
        /\ IsError(r.res) =>
              IF r.by \in Handlers THEN IsErrorBody(r.res)
              ELSE r.by \in {"cors", "json", "auth", "router"} /\ ~Has(r.res, "json")
        /\ r.db.err => r.res.status = 500 /\ IsErrorBody(r.res)
                        /\ r.res.json.error \in Generic

\* A list whose find failed was answered 500 with the list's generic message.
C9_Witness ==
    \E r \in Done("list") :
        r.db.err /\ r.res = Error(500, "Error al obtener productos")

\* Request q is taken, or reaches its present position, in this step.
NewIn(q) == CopiesIn(q, reqs') > CopiesIn(q, reqs)

\* A required field is missing from a create body.
Missing(b) == ~Has(b, "name") \/ ~Has(b, "price") \/ ~Has(b, "imageBase64")

\* C4: a create request whose body lacks name, price or imageBase64 is
\* answered 400 with an error body at once, its handler never awaiting the
\* persistence layer, and the step that answers it leaves the product
\* collection as it was.
C4_Create400 ==
    /\ [](\A r \in Serving :
            (r.by = "create" /\ Missing(body(r.in)))
                => r.pc = "done" /\ r.res = Error(400, "Faltan datos obligatorios"))
    /\ [][\A q \in BagToSet(reqs') :
            (NewIn(q) /\ q.by = "create" /\ Missing(body(q.in)))
                => products' = products /\ nextId' = nextId]_vars

\* A create with name and price but no image was refused while the collection
\* held a product.
C4_Witness ==
    \E r \in Done("create") :
        /\ Has(body(r.in), "name") /\ Has(body(r.in), "price")
        /\ ~Has(body(r.in), "imageBase64")
        /\ r.res.status = 400
        /\ products # {}

\* C5 as stated: a create request whose body has name, price and imageBase64,
\* answered without a persistence failure, is answered 201 with a record of a
\* fresh identifier, the given name, price and imageBase64, the given stock or
\* 0, and the given imageMimeType or "image/jpeg" when it is absent or falsy.
C5_Claim ==
    \A r \in Done("create") :
        LET b == body(r.in) IN
        (~Missing(b) /\ ~r.db.err) =>
            /\ r.res.status = 201
            /\ isObjectId(r.res.json._id)
            /\ r.res.json.name = b.name
            /\ r.res.json.price = b.price
            /\ r.res.json.imageBase64 = b.imageBase64
            /\ r.res.json.stock = IF Has(b, "stock") THEN b.stock ELSE 0
            /\ r.res.json.imageMimeType =
                  IF Has(b, "imageMimeType") /\ b.imageMimeType # ""
                  THEN b.imageMimeType ELSE "image/jpeg"

\* The data URI of a stored product.
DataUri(p) ==
    "data:" \o (IF Has(p, "imageMimeType") THEN p.imageMimeType ELSE "image/jpeg")
            \o ";base64," \o p.imageBase64

Items(r) == {r.res.json.items[i] : i \in DOMAIN r.res.json.items}

\* C6: a list request that arrived after the 201 for a product, and that has
\* succeeded while the product is still in the collection, has among its items
\* the product's stored fields together with its data URI as image.
C6_ListAfterCreate ==
    \A r \in Done("list") :
        r.res.status = 200 =>
            \A p \in products :
                p._id \in r.seen.created => (p @@ [image |-> DataUri(p)]) \in Items(r)

\* A list that arrived after the 201 for id1 has the item with its data URI.
C6_Witness ==
    \E r \in Done("list") :
        /\ r.res.status = 200
        /\ \E p \in products :
              /\ p._id \in r.seen.created
              /\ \E it \in Items(r) :
                    it._id = p._id /\ it.image = "data:image/jpeg;base64,QQ=="

\* The identifiers removed by a delete: those whose 200 has been sent and those
\* a delete has found and not yet answered.
Removed ==
    BagToSet(sent.deleted) \cup
        {paramId(r.in.path) : r \in {q \in At("delete", "resume") : q.had /\ ~q.db.err}}

\* The collection is what was inserted less what deletes found: no other
\* record is gone, and every record is as it was stored.
Accounted ==
    /\ ids(products) = {ObjectId(n) : n \in 1..nextId} \ Removed
    /\ \A p \in products : p = Product(createProps(Widget), p._id, p.createdAt)

Ok == [status |-> 200, json |-> [ok |-> TRUE]]

\* C7 as stated: a delete that names a product in the collection is answered
\* 200 {ok: true}.
C7_Original == \A r \in Done("delete") : r.had => r.res = Ok

\* C7, amended: a delete that names a product in the collection is answered
\* 200 {ok: true} when its persistence operation does not fail, and 500 with an
\* error body when it fails; exactly the records deletes have found are gone
\* and every other is unchanged; a list request that arrived after the 200 has
\* no item with that identifier, whatever was created or deleted since.
C7_Delete ==
    /\ \A r \in Done("delete") :
          r.had => r.res = IF r.db.err THEN Error(500, "Error al eliminar producto")
                           ELSE Ok
    /\ Accounted
    /\ \A r \in Done("list") :
          r.res.status = 200 =>
              \A it \in Items(r) : it._id \notin BagToSet(r.seen.deleted)

\* A list that arrived after the 200 for id1 lists the product created since,
\* and not id1.
C7_Witness ==
    \E r \in Done("list") :
        /\ ObjectId(1) \in BagToSet(r.seen.deleted)
        /\ r.res.status = 200
        /\ Items(r) # {}
        /\ \A it \in Items(r) : it._id # ObjectId(1)

\* C10 as stated: of the deletes of one identifier at most one is answered 200;
\* every other is answered 404; a delete that finds no record is answered 404.
C10_Original ==
    /\ \A id \in BagToSet(sent.deleted) : CopiesIn(id, sent.deleted) <= 1
    /\ \A r \in Done("delete") :
          /\ r.res.status \in {200, 404}
          /\ ~r.had => r.res.status = 404

\* C10, amended: of the deletes of one identifier at most one is answered 200,
\* the one that found the product; a delete whose persistence operation fails
\* is answered 500; every other is answered 404; and a delete that finds no
\* record removes none.
C10_Deletes ==
    /\ \A id \in BagToSet(sent.deleted) : CopiesIn(id, sent.deleted) <= 1
    /\ \A r \in Done("delete") :
          r.res.status = IF r.db.err THEN 500 ELSE IF r.had THEN 200 ELSE 404
    /\ \A r, q \in Done("delete") :
          (r.in.path = q.in.path /\ r.res.status = 200 /\ q.res.status = 200)
              => r = q /\ CopiesIn(r, reqs) = 1
    /\ Accounted

\* Two deletes of one identifier are answered, one 200 and one 404.
C10_Witness ==
    \E r, q \in Done("delete") :
        /\ r.in.path = q.in.path
        /\ r.res = Ok
        /\ q.res = Error(404, "Producto no encontrado")

\* C8 as stated, for a login whose lookup does not fail: 400 when username or
\* password is missing or empty; else 401 "Usuario no encontrado" when no user
\* has that username; else 401 "Contraseña incorrecta" when that user's
\* password differs; else 200 with token "ok-" and the user's identifier.
C8_Claim ==
    \A r \in Done("login") :
        LET b == body(r.in)
            named == {u \in users : isString(b.username) /\ u.username = b.username.str}
        IN  ~r.db.err =>
              IF \/ ~Has(b, "username") \/ ~Has(b, "password")
              THEN r.res.status = 400
              ELSE IF b.username = [str |-> ""] \/ b.password = ""
              THEN r.res.status = 400
              ELSE IF named = {}
              THEN r.res = Error(401, "Usuario no encontrado")
              ELSE \A u \in named :
                      IF u.password # b.password
                      THEN r.res = Error(401, "Contraseña incorrecta")
                      ELSE /\ r.res.status = 200
                           /\ r.res.json.token = "ok-" \o u._id

=============================================================================
